---- MODULE Spec2Model ----
(***************************************************************************)
(* Model of the music bot (src/bot.py, src/music_service.py).              *)
(*                                                                         *)
(* Two state machines share the module:                                    *)
(*   Spec        the download side: download_handler, the process_download *)
(*               tasks, download_semaphore, download_queue, audio_cache    *)
(*               and the temp files on disk;                               *)
(*   SpecSearch  the search side: search_handler, pagination_handler,      *)
(*               build_results_keyboard, search_cache, song_metadata.      *)
(*                                                                         *)
(* One action is one uninterrupted run of a coroutine on the event loop,   *)
(* from one suspension point (await) to the next; the worker thread that   *)
(* runs _download is a step of its own.  asyncio.Semaphore is modelled as  *)
(* CPython 3.11 implements it (a counter and a FIFO of waiters, a slot is  *)
(* handed to the first waiter at release).  An await of the chat transport *)
(* (callback.answer, message.answer, answer_audio, edit_text, ...) returns *)
(* or raises; the awaits of different handlers complete in any order.  A   *)
(* task made by create_task runs first after the tasks made before it, but *)
(* steps of running coroutines may come in between.  A call that a handler *)
(* makes without await runs inside the handler's step; search_songs, which *)
(* goes to the network, has a state of its own (the handler is inside the  *)
(* call), in which no other step of the event loop is possible.            *)
(*                                                                         *)
(* Of the disk only final_path and thumb_path are modelled; files that     *)
(* yt_dlp writes under other names are not.                                *)
(***************************************************************************)
EXTENDS Integers, Sequences, FiniteSets, TLC

\* ---------------------------------------------------------------- bounds
MaxReq == 4            \* download button presses in a run
NumVideos == 2         \* distinct track ids pressed
MaxSearch == 2         \* search messages in a run
MaxPress == 1          \* presses of a page button in a run
NumUsers == 1          \* users
MaxResults == 11       \* size of the largest result list of the catalog

\* ------------------------------------------------------ program constants
MAX_CONCURRENT_DOWNLOADS == 3
SONGS_PER_PAGE == 5
TOTAL_SEARCH_RESULTS == 20

Req == 1..MaxReq
VideoIds == 1..NumVideos
None == 0

Srch == 1..MaxSearch
Press == 1..MaxPress
Users == 1..NumUsers

\* what search_songs can return for one query: nothing, one page, several
\* pages (at most the limit asked for)
ResultSizes ==
    {0, SONGS_PER_PAGE,
     IF MaxResults < TOTAL_SEARCH_RESULTS THEN MaxResults
     ELSE TOTAL_SEARCH_RESULTS}

VARIABLES
    pc,              \* Req -> position of the request's handler / task
    vid,             \* Req -> video_id of the press (None before the press)
    created,         \* tasks made by create_task that have not run yet (FIFO)
    download_queue,  \* bot.py:33
    sem_value,       \* download_semaphore._value
    sem_waiters,     \* download_semaphore._waiters
    audio_cache,     \* bot.py:18, the keys that have a file_id
    disk,            \* files that exist: <<"mp3", v>> and <<"jpg", r>>
    queue_position,  \* Req -> local queue_position, while callback.answer runs
    notice,          \* Req -> text callback.answer is sending (bot.py:42/44)
    result,          \* Req -> what _download returned, until download_song ends
    filepath,        \* Req -> local filepath, while the task is in try/finally
    thumb_path,      \* Req -> local thumb_path, while the task is in try/finally
    search_cache,    \* bot.py:24, Users -> NoEntry or <<query, songs>>
    song_metadata,   \* bot.py:21, the video ids that have an entry
    nav_buttons,     \* Users -> the pages k with a delivered button "page:k"
    s_pc,            \* Srch -> position of the search_handler run
    s_user,          \* Srch -> message.from_user.id
    s_query,         \* Srch -> local query
    s_songs,         \* Srch -> local songs
    p_pc,            \* Press -> position of the pagination_handler run
    p_user,          \* Press -> callback.from_user.id
    p_page,          \* Press -> local page
    keyboard,        \* handler -> the keyboard it built and is sending
    q_pc,            \* position of the queue_handler run
    active,          \* local active of queue_handler, while its reply is sent
    waiting          \* local waiting of queue_handler, while its reply is sent

dlvars == <<pc, vid, created, download_queue, sem_value, sem_waiters,
            audio_cache, disk, queue_position, notice, result, filepath,
            thumb_path>>

searchvars == <<search_cache, song_metadata, nav_buttons, s_pc, s_user,
                s_query, s_songs, p_pc, p_user, p_page, keyboard>>

queuevars == <<q_pc, active, waiting>>

vars == <<dlvars, searchvars, queuevars>>

\* --------------------------------------------------------------- helpers
NoPath == <<"none", 0>>
FinalPath(v) == <<"mp3", v>>
ThumbFile(r) == <<"jpg", r>>

NoNotice == <<"none", 0>>

\* the track id of the r-th press: the presses go round the track ids, so
\* that a run has presses of different ids and repeated presses of one id
PressedId(r) == ((r - 1) % NumVideos) + 1

\* `video_id in download_queue`
InQueue(q, v) == \E i \in 1..Len(q) : q[i] = v

\* list.remove(x): drops the first occurrence
RECURSIVE ListRemove(_, _)
ListRemove(q, v) ==
    IF q = <<>> THEN <<>>
    ELSE IF Head(q) = v THEN Tail(q)
    ELSE <<Head(q)>> \o ListRemove(Tail(q), v)

\* PositionNotice with the comparison off by one
PositionNotice_OffByOne(p) ==
    IF p >= MAX_CONCURRENT_DOWNLOADS
    THEN <<"queued", p - MAX_CONCURRENT_DOWNLOADS>>
    ELSE <<"downloading", 0>>

\* the text of the position notification
PositionNotice(p) ==
    IF p > MAX_CONCURRENT_DOWNLOADS
    THEN <<"queued", p - MAX_CONCURRENT_DOWNLOADS>>
    ELSE <<"downloading", 0>>

\* Semaphore.locked()
locked == sem_value = 0 \/ sem_waiters # <<>>

\* index of the first waiter whose future is not done, 0 if there is none
FirstPending(w, p) ==
    IF \E i \in 1..Len(w) : p[w[i]] = "waiting"
    THEN CHOOSE i \in 1..Len(w) :
            /\ p[w[i]] = "waiting"
            /\ \A j \in 1..(i-1) : p[w[j]] # "waiting"
    ELSE 0

\* Semaphore._wake_up_next() on counter val, waiters w and positions p:
\* the new <<counter, positions>>
WakeUpNext(val, w, p) ==
    LET i == FirstPending(w, p) IN
    IF i = 0 THEN <<val, p>>
    ELSE <<val - 1, [p EXCEPT ![w[i]] = "woken"]>>

\* Semaphore.release()
SemRelease(val, w, p) == WakeUpNext(val + 1, w, p)

\* cleanup_file(filepath) followed by the removal of thumb_path
Cleanup(d, r) == (d \ {filepath[r]}) \ {thumb_path[r]}

\* ----------------------------------------------------- search-side helpers
NoEntry == <<>>

\* the i-th song the catalog lists for query q (its video_id)
Song(q, i) == <<q, i>>

\* search_songs(query, limit): the songs of a result list of size n
SearchSongs(q, n) == [i \in 1..n |-> Song(q, i)]

Min(a, b) == IF a < b THEN a ELSE b

\* songs[a:b] for 0 <= a <= b
PySlice(songs, a, b) ==
    SubSeq(songs, Min(a, Len(songs)) + 1, Min(b, Len(songs)))

Range(f) == {f[i] : i \in DOMAIN f}

NoButton == -1
NoKeyboard == [songs |-> <<>>, label |-> <<0, 0>>, back |-> NoButton,
               forward |-> NoButton]

\* build_results_keyboard with the number of pages rounded down
build_results_keyboard_FloorPages(songs, page) ==
    LET start_idx == page * SONGS_PER_PAGE
        end_idx == start_idx + SONGS_PER_PAGE
        total_pages == Len(songs) \div SONGS_PER_PAGE
    IN [songs |-> PySlice(songs, start_idx, end_idx),
        label |-> <<page + 1, total_pages>>,
        back |-> IF page > 0 THEN page - 1 ELSE NoButton,
        forward |-> IF page < total_pages - 1 THEN page + 1 ELSE NoButton]

\* build_results_keyboard(songs, page, user_id): the rows of song buttons,
\* the page indicator and the targets of the navigation buttons
build_results_keyboard(songs, page) ==
    LET start_idx == page * SONGS_PER_PAGE
        end_idx == start_idx + SONGS_PER_PAGE
        total_pages == (Len(songs) + SONGS_PER_PAGE - 1) \div SONGS_PER_PAGE
    IN [songs |-> PySlice(songs, start_idx, end_idx),
        label |-> <<page + 1, total_pages>>,
        back |-> IF page > 0 THEN page - 1 ELSE NoButton,
        forward |-> IF page < total_pages - 1 THEN page + 1 ELSE NoButton]

\* the pages the navigation buttons of a keyboard lead to
NavTargets(kb) == {kb.back, kb.forward} \ {NoButton}

SearchHandlerId(s) == <<"search", s>>
PressHandlerId(p) == <<"page", p>>
Handlers == {SearchHandlerId(s) : s \in Srch} \cup {PressHandlerId(p) : p \in Press}

\* a handler is inside search_songs: the call is made on the event loop
\* (bot.py:192), which runs nothing else until it has returned
LoopBusy == \E s \in Srch : s_pc[s] = "searching"

Max(a, b) == IF a > b THEN a ELSE b

\* ------------------------------------------------------------------ Init
Init ==
    /\ pc = [r \in Req |-> "idle"]
    /\ vid = [r \in Req |-> None]
    /\ created = <<>>
    /\ download_queue = <<>>
    /\ sem_value = MAX_CONCURRENT_DOWNLOADS
    /\ sem_waiters = <<>>
    /\ audio_cache = {}
    /\ disk = {}
    /\ queue_position = [r \in Req |-> None]
    /\ notice = [r \in Req |-> NoNotice]
    /\ result = [r \in Req |-> NoPath]
    /\ filepath = [r \in Req |-> NoPath]
    /\ thumb_path = [r \in Req |-> NoPath]
    /\ search_cache = [u \in Users |-> NoEntry]
    /\ song_metadata = {}
    /\ nav_buttons = [u \in Users |-> {}]
    /\ s_pc = [s \in Srch |-> "idle"]
    /\ s_user = [s \in Srch |-> None]
    /\ s_query = [s \in Srch |-> None]
    /\ s_songs = [s \in Srch |-> <<>>]
    /\ p_pc = [p \in Press |-> "idle"]
    /\ p_user = [p \in Press |-> None]
    /\ p_page = [p \in Press |-> None]
    /\ keyboard = [h \in Handlers |-> NoKeyboard]
    /\ q_pc = "idle"
    /\ active = None
    /\ waiting = None

\* --------------------------------------------------------------- actions

\* DownloadHandler without the look into audio_cache
DownloadHandler_NoCacheCheck(r) ==
    /\ ~LoopBusy
    /\ pc[r] = "idle"
    /\ \A s \in Req : s < r => pc[s] # "idle"
    /\ vid' = [vid EXCEPT ![r] = PressedId(r)]
    /\ pc' = [pc EXCEPT ![r] = "created"]
    /\ created' = Append(created, r)
    /\ UNCHANGED <<download_queue, sem_value, sem_waiters, audio_cache, disk,
                   queue_position, notice, result, filepath, thumb_path>>
    /\ UNCHANGED <<searchvars, queuevars>>

\* download_handler: a press of a button "dl:<video_id>".  Presses are
\* numbered in the order they are handled.
DownloadHandler(r) ==
    /\ ~LoopBusy
    /\ pc[r] = "idle"
    /\ \A s \in Req : s < r => pc[s] # "idle"
    /\ vid' = [vid EXCEPT ![r] = PressedId(r)]
    /\ IF PressedId(r) \in audio_cache
       THEN /\ pc' = [pc EXCEPT ![r] = "cache_send"]
            /\ UNCHANGED created
       ELSE /\ pc' = [pc EXCEPT ![r] = "created"]
            /\ created' = Append(created, r)
    /\ UNCHANGED <<download_queue, sem_value, sem_waiters, audio_cache, disk,
                   queue_position, notice, result, filepath, thumb_path>>
    /\ UNCHANGED <<searchvars, queuevars>>

\* answer_audio(audio=audio_cache[video_id]) and callback.answer("from cache")
\* return, or one of them raises: the handler ends
CacheReply(r, fault) ==
    /\ ~LoopBusy
    /\ pc[r] = "cache_send"
    /\ pc' = [pc EXCEPT ![r] = IF fault THEN "crashed_cache" ELSE "done_cached"]
    /\ UNCHANGED <<vid, created, download_queue, sem_value, sem_waiters,
                   audio_cache, disk, queue_position, notice, result,
                   filepath, thumb_path>>
    /\ UNCHANGED <<searchvars, queuevars>>

\* process_download, first run of the task: append, position, notification
Enqueue(r) ==
    /\ ~LoopBusy
    /\ created # <<>>
    /\ Head(created) = r
    /\ created' = Tail(created)
    /\ download_queue' = Append(download_queue, vid[r])
    /\ queue_position' = [queue_position EXCEPT ![r] = Len(download_queue')]
    /\ notice' = [notice EXCEPT ![r] = PositionNotice(queue_position'[r])]
    /\ pc' = [pc EXCEPT ![r] = "answer"]
    /\ UNCHANGED <<vid, sem_value, sem_waiters, audio_cache, disk, result,
                   filepath, thumb_path>>
    /\ UNCHANGED <<searchvars, queuevars>>

\* callback.answer(...) raises: the task ends before `async with`
AnswerFault(r) ==
    /\ ~LoopBusy
    /\ pc[r] = "answer"
    /\ pc' = [pc EXCEPT ![r] = "crashed_answer"]
    /\ queue_position' = [queue_position EXCEPT ![r] = None]
    /\ notice' = [notice EXCEPT ![r] = NoNotice]
    /\ UNCHANGED <<vid, created, download_queue, sem_value, sem_waiters,
                   audio_cache, disk, result, filepath, thumb_path>>
    /\ UNCHANGED <<searchvars, queuevars>>

\* Acquire without the semaphore: the task enters at once
Acquire_NoSemaphore(r) ==
    /\ ~LoopBusy
    /\ pc[r] = "answer"
    /\ sem_value' = sem_value - 1
    /\ pc' = [pc EXCEPT ![r] = "downloading"]
    /\ queue_position' = [queue_position EXCEPT ![r] = None]
    /\ notice' = [notice EXCEPT ![r] = NoNotice]
    /\ UNCHANGED <<vid, created, download_queue, sem_waiters, audio_cache,
                   disk, result, filepath, thumb_path>>
    /\ UNCHANGED <<searchvars, queuevars>>

\* callback.answer(...) returns; download_semaphore.acquire(); when the slot
\* is free download_song starts and suspends on run_in_executor
Acquire(r) ==
    /\ ~LoopBusy
    /\ pc[r] = "answer"
    /\ IF ~locked
       THEN /\ sem_value' = sem_value - 1
            /\ pc' = [pc EXCEPT ![r] = "downloading"]
            /\ UNCHANGED sem_waiters
       ELSE /\ sem_waiters' = Append(sem_waiters, r)
            /\ pc' = [pc EXCEPT ![r] = "waiting"]
            /\ UNCHANGED sem_value
    /\ queue_position' = [queue_position EXCEPT ![r] = None]
    /\ notice' = [notice EXCEPT ![r] = NoNotice]
    /\ UNCHANGED <<vid, created, download_queue, audio_cache, disk, result,
                   filepath, thumb_path>>
    /\ UNCHANGED <<searchvars, queuevars>>

\* a woken waiter runs again: rest of acquire(), then download_song starts
Resume(r) ==
    /\ ~LoopBusy
    /\ pc[r] = "woken"
    /\ sem_waiters' = SelectSeq(sem_waiters, LAMBDA s : s # r)
    /\ LET p1 == [pc EXCEPT ![r] = "downloading"]
           w == IF sem_value > 0
                THEN WakeUpNext(sem_value, sem_waiters', p1)
                ELSE <<sem_value, p1>>
       IN /\ sem_value' = w[1]
          /\ pc' = w[2]
    /\ UNCHANGED <<vid, created, download_queue, audio_cache, disk,
                   queue_position, notice, result, filepath, thumb_path>>
    /\ UNCHANGED <<searchvars, queuevars>>

\* the worker thread: _download returns final_path (the file is written) or
\* None (yt_dlp raised)
Download(r, ok) ==
    /\ pc[r] = "downloading"
    /\ pc' = [pc EXCEPT ![r] = "downloaded"]
    /\ result' = [result EXCEPT ![r] = IF ok THEN FinalPath(vid[r]) ELSE NoPath]
    /\ disk' = IF ok THEN disk \cup {FinalPath(vid[r])} ELSE disk
    /\ UNCHANGED <<vid, created, download_queue, sem_value, sem_waiters,
                   audio_cache, queue_position, notice, filepath, thumb_path>>
    /\ UNCHANGED <<searchvars, queuevars>>

\* AfterDownload that starts the download again when it failed
AfterDownload_Retry(r, thumb) ==
    /\ ~LoopBusy
    /\ pc[r] = "downloaded"
    /\ LET fp == IF result[r] # NoPath /\ result[r] \in disk
                 THEN result[r] ELSE NoPath
       IN /\ filepath' = [filepath EXCEPT ![r] = fp]
          /\ download_queue' = IF InQueue(download_queue, vid[r])
                               THEN ListRemove(download_queue, vid[r])
                               ELSE download_queue
          /\ IF fp = NoPath
             THEN /\ thumb = FALSE
                  /\ pc' = [pc EXCEPT ![r] = "downloading"]
                  /\ UNCHANGED <<thumb_path, disk>>
             ELSE /\ pc' = [pc EXCEPT ![r] = "delivering"]
                  /\ thumb_path' = [thumb_path EXCEPT ![r] =
                                       IF thumb THEN ThumbFile(r) ELSE NoPath]
                  /\ disk' = IF thumb THEN disk \cup {ThumbFile(r)} ELSE disk
    /\ result' = [result EXCEPT ![r] = NoPath]
    /\ UNCHANGED <<vid, created, sem_value, sem_waiters, audio_cache,
                   queue_position, notice>>
    /\ UNCHANGED <<searchvars, queuevars>>

\* download_song returns; the id leaves the queue; on failure the failure
\* message is sent, otherwise the thumbnail is fetched (thumb: the request
\* gave a 200) and answer_audio is awaited
AfterDownload(r, thumb) ==
    /\ ~LoopBusy
    /\ pc[r] = "downloaded"
    /\ LET fp == IF result[r] # NoPath /\ result[r] \in disk
                 THEN result[r] ELSE NoPath
       IN /\ filepath' = [filepath EXCEPT ![r] = fp]
          /\ download_queue' = IF InQueue(download_queue, vid[r])
                               THEN ListRemove(download_queue, vid[r])
                               ELSE download_queue
          /\ IF fp = NoPath
             THEN /\ thumb = FALSE
                  /\ pc' = [pc EXCEPT ![r] = "fail_msg"]
                  /\ UNCHANGED <<thumb_path, disk>>
             ELSE /\ pc' = [pc EXCEPT ![r] = "delivering"]
                  /\ thumb_path' = [thumb_path EXCEPT ![r] =
                                       IF thumb THEN ThumbFile(r) ELSE NoPath]
                  /\ disk' = IF thumb THEN disk \cup {ThumbFile(r)} ELSE disk
    /\ result' = [result EXCEPT ![r] = NoPath]
    /\ UNCHANGED <<vid, created, sem_value, sem_waiters, audio_cache,
                   queue_position, notice>>
    /\ UNCHANGED <<searchvars, queuevars>>

\* FailMessage with a release after the call instead of `async with`: a
\* fault skips the release
FailMessage_ReleaseAfterCall(r, fault) ==
    /\ ~LoopBusy
    /\ pc[r] = "fail_msg"
    /\ LET p1 == [pc EXCEPT ![r] = IF fault THEN "crashed_failmsg"
                                    ELSE "done_failed"]
           w == IF fault THEN <<sem_value, p1>>
                ELSE SemRelease(sem_value, sem_waiters, p1)
       IN /\ sem_value' = w[1]
          /\ pc' = w[2]
    /\ UNCHANGED <<vid, created, download_queue, sem_waiters, audio_cache,
                   disk, queue_position, notice, result, filepath, thumb_path>>
    /\ UNCHANGED <<searchvars, queuevars>>

\* message.answer("download failed") returns or raises; `async with` exits
FailMessage(r, fault) ==
    /\ ~LoopBusy
    /\ pc[r] = "fail_msg"
    /\ LET w == SemRelease(sem_value, sem_waiters,
                           [pc EXCEPT ![r] = IF fault THEN "crashed_failmsg"
                                             ELSE "done_failed"])
       IN /\ sem_value' = w[1]
          /\ pc' = w[2]
    /\ UNCHANGED <<vid, created, download_queue, sem_waiters, audio_cache,
                   disk, queue_position, notice, result, filepath, thumb_path>>
    /\ UNCHANGED <<searchvars, queuevars>>

\* Deliver with the cleanup after the call instead of in `finally`: a fault
\* skips the cleanup
Deliver_CleanupAfterCall(r, outcome) ==
    /\ ~LoopBusy
    /\ pc[r] = "delivering"
    /\ filepath[r] \notin disk => outcome = "fault"
    /\ audio_cache' = IF outcome = "audio"
                      THEN audio_cache \cup {vid[r]} ELSE audio_cache
    /\ disk' = IF outcome = "fault" THEN disk ELSE Cleanup(disk, r)
    /\ LET w == SemRelease(sem_value, sem_waiters,
                           [pc EXCEPT ![r] = IF outcome = "fault"
                                             THEN "crashed_deliver"
                                             ELSE "done_delivered"])
       IN /\ sem_value' = w[1]
          /\ pc' = w[2]
    /\ filepath' = [filepath EXCEPT ![r] = NoPath]
    /\ thumb_path' = [thumb_path EXCEPT ![r] = NoPath]
    /\ UNCHANGED <<vid, created, download_queue, sem_waiters, queue_position,
                   notice, result>>
    /\ UNCHANGED <<searchvars, queuevars>>

\* Deliver with the cache entry written whatever answer_audio did
Deliver_CacheAlways(r, outcome) ==
    /\ ~LoopBusy
    /\ pc[r] = "delivering"
    /\ filepath[r] \notin disk => outcome = "fault"
    /\ audio_cache' = audio_cache \cup {vid[r]}
    /\ disk' = Cleanup(disk, r)
    /\ LET w == SemRelease(sem_value, sem_waiters,
                           [pc EXCEPT ![r] = IF outcome = "fault"
                                             THEN "crashed_deliver"
                                             ELSE "done_delivered"])
       IN /\ sem_value' = w[1]
          /\ pc' = w[2]
    /\ filepath' = [filepath EXCEPT ![r] = NoPath]
    /\ thumb_path' = [thumb_path EXCEPT ![r] = NoPath]
    /\ UNCHANGED <<vid, created, download_queue, sem_waiters, queue_position,
                   notice, result>>
    /\ UNCHANGED <<searchvars, queuevars>>

\* answer_audio returns (with or without sent_message.audio) or raises; the
\* finally block runs and `async with` exits
Deliver(r, outcome) ==
    /\ ~LoopBusy
    /\ pc[r] = "delivering"
    /\ filepath[r] \notin disk => outcome = "fault"
    /\ audio_cache' = IF outcome = "audio"
                      THEN audio_cache \cup {vid[r]} ELSE audio_cache
    /\ disk' = Cleanup(disk, r)
    /\ LET w == SemRelease(sem_value, sem_waiters,
                           [pc EXCEPT ![r] = IF outcome = "fault"
                                             THEN "crashed_deliver"
                                             ELSE "done_delivered"])
       IN /\ sem_value' = w[1]
          /\ pc' = w[2]
    /\ filepath' = [filepath EXCEPT ![r] = NoPath]
    /\ thumb_path' = [thumb_path EXCEPT ![r] = NoPath]
    /\ UNCHANGED <<vid, created, download_queue, sem_waiters, queue_position,
                   notice, result>>
    /\ UNCHANGED <<searchvars, queuevars>>

DeliverOutcomes == {"audio", "no_audio", "fault"}

Next ==
    \/ \E r \in Req : DownloadHandler(r)
    \/ \E r \in Req, f \in BOOLEAN : CacheReply(r, f)
    \/ \E r \in Req : Enqueue(r)
    \/ \E r \in Req : AnswerFault(r)
    \/ \E r \in Req : Acquire(r)
    \/ \E r \in Req : Resume(r)
    \/ \E r \in Req, ok \in BOOLEAN : Download(r, ok)
    \/ \E r \in Req, th \in BOOLEAN : AfterDownload(r, th)
    \/ \E r \in Req, f \in BOOLEAN : FailMessage(r, f)
    \/ \E r \in Req, o \in DeliverOutcomes : Deliver(r, o)

Spec == Init /\ [][Next]_vars

\* ------------------------------------------------------ the /queue command
\* queue_handler: the counts are taken from download_queue and the reply is
\* sent.  One /queue command is looked at.
QueueHandler ==
    /\ ~LoopBusy
    /\ q_pc = "idle"
    /\ active' = Min(Len(download_queue), MAX_CONCURRENT_DOWNLOADS)
    /\ waiting' = Max(0, Len(download_queue) - MAX_CONCURRENT_DOWNLOADS)
    /\ q_pc' = "reply"
    /\ UNCHANGED <<dlvars, searchvars>>

\* message.answer(status text) returns or raises: the handler ends
QueueReplied ==
    /\ ~LoopBusy
    /\ q_pc = "reply"
    /\ q_pc' = "done"
    /\ active' = None
    /\ waiting' = None
    /\ UNCHANGED <<dlvars, searchvars>>

NextQueue ==
    \/ Next
    \/ QueueHandler
    \/ QueueReplied

SpecQueue == Init /\ [][NextQueue]_vars

\* The event loop runs every task that is ready, the worker thread finishes
\* and every call of the chat transport returns or raises: each step of a
\* request that stays possible is taken.  Nothing makes a user press.
Fairness ==
    \A r \in Req :
       /\ WF_vars(\E f \in BOOLEAN : CacheReply(r, f))
       /\ WF_vars(Enqueue(r))
       /\ WF_vars(AnswerFault(r) \/ Acquire(r))
       /\ WF_vars(Resume(r))
       /\ WF_vars(\E ok \in BOOLEAN : Download(r, ok))
       /\ WF_vars(\E th \in BOOLEAN : AfterDownload(r, th))
       /\ WF_vars(\E f \in BOOLEAN : FailMessage(r, f))
       /\ WF_vars(\E o \in DeliverOutcomes : Deliver(r, o))

SpecFair == Init /\ [][Next]_vars /\ Fairness

\* ------------------------------------------------------- search actions
Blank == 0

\* message.text.strip() of the s-th search message: every message has a text
\* of its own
QueryText(s) == s

\* search_handler, up to message.delete(): q is message.text.strip(), Blank
\* when nothing is left of it.  Searches are numbered in the order in which
\* their messages are handled.
SearchHandler(s, u, q) ==
    /\ ~LoopBusy
    /\ s_pc[s] = "idle"
    /\ \A t \in Srch : t < s => s_pc[t] # "idle"
    /\ s_user' = [s_user EXCEPT ![s] = u]
    /\ s_query' = [s_query EXCEPT ![s] = q]
    /\ s_pc' = [s_pc EXCEPT ![s] = IF q = Blank THEN "done_blank" ELSE "delete"]
    /\ UNCHANGED <<search_cache, song_metadata, nav_buttons, s_songs, p_pc,
                   p_user, p_page, keyboard>>
    /\ UNCHANGED <<dlvars, queuevars>>

\* message.delete() returns or raises (swallowed); the status message is sent
SearchDeleted(s) ==
    /\ ~LoopBusy
    /\ s_pc[s] = "delete"
    /\ s_pc' = [s_pc EXCEPT ![s] = "status"]
    /\ UNCHANGED <<search_cache, song_metadata, nav_buttons, s_user, s_query,
                   s_songs, p_pc, p_user, p_page, keyboard>>
    /\ UNCHANGED <<dlvars, queuevars>>

\* message.answer(status) returns and search_songs is called
SearchStarted(s) ==
    /\ ~LoopBusy
    /\ s_pc[s] = "status"
    /\ s_pc' = [s_pc EXCEPT ![s] = "searching"]
    /\ UNCHANGED <<search_cache, song_metadata, nav_buttons, s_user, s_query,
                   s_songs, p_pc, p_user, p_page, keyboard>>
    /\ UNCHANGED <<dlvars, queuevars>>

\* message.answer(status) raises, or search_songs raises
SearchFault(s) ==
    /\ \/ ~LoopBusy /\ s_pc[s] = "status"
       \/ s_pc[s] = "searching"
    /\ s_pc' = [s_pc EXCEPT ![s] = "crashed"]
    /\ UNCHANGED <<search_cache, song_metadata, nav_buttons, s_user, s_query,
                   s_songs, p_pc, p_user, p_page, keyboard>>
    /\ UNCHANGED <<dlvars, queuevars>>

\* search_songs returns n songs; when there are none the "nothing found"
\* text is sent, otherwise the result is cached, page 0 is built and sent
SearchResults(s, n) ==
    /\ s_pc[s] = "searching"
    /\ LET songs == SearchSongs(s_query[s], n)
           kb == build_results_keyboard(songs, 0)
       IN /\ s_songs' = [s_songs EXCEPT ![s] = songs]
          /\ IF songs = <<>>
             THEN /\ s_pc' = [s_pc EXCEPT ![s] = "notfound"]
                  /\ UNCHANGED <<search_cache, song_metadata, keyboard>>
             ELSE /\ s_pc' = [s_pc EXCEPT ![s] = "edit"]
                  /\ search_cache' = [search_cache EXCEPT ![s_user[s]] =
                                         <<s_query[s], songs>>]
                  /\ song_metadata' = song_metadata \cup Range(kb.songs)
                  /\ keyboard' = [keyboard EXCEPT ![SearchHandlerId(s)] = kb]
    /\ UNCHANGED <<nav_buttons, s_user, s_query, p_pc, p_user, p_page>>
    /\ UNCHANGED <<dlvars, queuevars>>

\* status_msg.edit_text(...) returns or raises: the handler ends; a keyboard
\* that was delivered can be pressed from now on
SearchEdited(s, fault) ==
    /\ ~LoopBusy
    /\ s_pc[s] \in {"notfound", "edit"}
    /\ s_pc' = [s_pc EXCEPT ![s] =
                    IF fault THEN "crashed"
                    ELSE IF s_pc[s] = "edit" THEN "done_shown"
                    ELSE "done_notfound"]
    /\ nav_buttons' =
          IF ~fault /\ s_pc[s] = "edit"
          THEN [nav_buttons EXCEPT ![s_user[s]] =
                   @ \cup NavTargets(keyboard[SearchHandlerId(s)])]
          ELSE nav_buttons
    /\ keyboard' = [keyboard EXCEPT ![SearchHandlerId(s)] = NoKeyboard]
    /\ UNCHANGED <<search_cache, song_metadata, s_user, s_query, s_songs,
                   p_pc, p_user, p_page>>
    /\ UNCHANGED <<dlvars, queuevars>>

\* PaginationHandler that pages through the list of the first search
\* instead of the list cached for the user
PaginationHandler_FirstList(p, u, page) ==
    /\ ~LoopBusy
    /\ p_pc[p] = "idle"
    /\ \A t \in Press : t < p => p_pc[t] # "idle"
    /\ page \in nav_buttons[u]
    /\ p_user' = [p_user EXCEPT ![p] = u]
    /\ p_page' = [p_page EXCEPT ![p] = page]
    /\ IF search_cache[u] = NoEntry
       THEN /\ p_pc' = [p_pc EXCEPT ![p] = "stale"]
            /\ UNCHANGED <<song_metadata, keyboard>>
       ELSE LET songs == SearchSongs(QueryText(1), Len(search_cache[u][2]))
                kb == build_results_keyboard(songs, page)
            IN /\ p_pc' = [p_pc EXCEPT ![p] = "edit"]
               /\ song_metadata' = song_metadata \cup Range(kb.songs)
               /\ keyboard' = [keyboard EXCEPT ![PressHandlerId(p)] = kb]
    /\ UNCHANGED <<search_cache, nav_buttons, s_pc, s_user, s_query, s_songs>>
    /\ UNCHANGED <<dlvars, queuevars>>

\* PaginationHandler that does not store the metadata of the songs it shows
PaginationHandler_NoMetadata(p, u, page) ==
    /\ ~LoopBusy
    /\ p_pc[p] = "idle"
    /\ \A t \in Press : t < p => p_pc[t] # "idle"
    /\ page \in nav_buttons[u]
    /\ p_user' = [p_user EXCEPT ![p] = u]
    /\ p_page' = [p_page EXCEPT ![p] = page]
    /\ IF search_cache[u] = NoEntry
       THEN /\ p_pc' = [p_pc EXCEPT ![p] = "stale"]
            /\ UNCHANGED <<song_metadata, keyboard>>
       ELSE LET songs == search_cache[u][2]
                kb == build_results_keyboard(songs, page)
            IN /\ p_pc' = [p_pc EXCEPT ![p] = "edit"]
               /\ UNCHANGED song_metadata
               /\ keyboard' = [keyboard EXCEPT ![PressHandlerId(p)] = kb]
    /\ UNCHANGED <<search_cache, nav_buttons, s_pc, s_user, s_query, s_songs>>
    /\ UNCHANGED <<dlvars, queuevars>>

\* pagination_handler: user u presses a delivered button "page:<page>"
PaginationHandler(p, u, page) ==
    /\ ~LoopBusy
    /\ p_pc[p] = "idle"
    /\ \A t \in Press : t < p => p_pc[t] # "idle"
    /\ page \in nav_buttons[u]
    /\ p_user' = [p_user EXCEPT ![p] = u]
    /\ p_page' = [p_page EXCEPT ![p] = page]
    /\ IF search_cache[u] = NoEntry
       THEN /\ p_pc' = [p_pc EXCEPT ![p] = "stale"]
            /\ UNCHANGED <<song_metadata, keyboard>>
       ELSE LET songs == search_cache[u][2]
                kb == build_results_keyboard(songs, page)
            IN /\ p_pc' = [p_pc EXCEPT ![p] = "edit"]
               /\ song_metadata' = song_metadata \cup Range(kb.songs)
               /\ keyboard' = [keyboard EXCEPT ![PressHandlerId(p)] = kb]
    /\ UNCHANGED <<search_cache, nav_buttons, s_pc, s_user, s_query, s_songs>>
    /\ UNCHANGED <<dlvars, queuevars>>

\* edit_reply_markup(...) returns or raises
PageEdited(p, fault) ==
    /\ ~LoopBusy
    /\ p_pc[p] = "edit"
    /\ p_pc' = [p_pc EXCEPT ![p] = IF fault THEN "done" ELSE "ack"]
    /\ p_user' = [p_user EXCEPT ![p] = IF fault THEN None ELSE @]
    /\ p_page' = [p_page EXCEPT ![p] = IF fault THEN None ELSE @]
    /\ nav_buttons' =
          IF ~fault
          THEN [nav_buttons EXCEPT ![p_user[p]] =
                   @ \cup NavTargets(keyboard[PressHandlerId(p)])]
          ELSE nav_buttons
    /\ keyboard' = [keyboard EXCEPT ![PressHandlerId(p)] = NoKeyboard]
    /\ UNCHANGED <<search_cache, song_metadata, s_pc, s_user, s_query,
                   s_songs>>
    /\ UNCHANGED <<dlvars, queuevars>>

\* callback.answer(...) returns or raises: the handler ends
PageAcked(p) ==
    /\ ~LoopBusy
    /\ p_pc[p] \in {"stale", "ack"}
    /\ p_pc' = [p_pc EXCEPT ![p] = "done"]
    /\ p_user' = [p_user EXCEPT ![p] = None]
    /\ p_page' = [p_page EXCEPT ![p] = None]
    /\ UNCHANGED <<search_cache, song_metadata, nav_buttons, s_pc, s_user,
                   s_query, s_songs, keyboard>>
    /\ UNCHANGED <<dlvars, queuevars>>

NextSearch ==
    \/ \E s \in Srch, u \in Users :
          \E q \in {QueryText(s), Blank} : SearchHandler(s, u, q)
    \/ \E s \in Srch : SearchDeleted(s)
    \/ \E s \in Srch : SearchStarted(s)
    \/ \E s \in Srch : SearchFault(s)
    \/ \E s \in Srch, n \in ResultSizes : SearchResults(s, n)
    \/ \E s \in Srch, f \in BOOLEAN : SearchEdited(s, f)
    \/ \E p \in Press, u \in Users, k \in 0..MaxResults :
          PaginationHandler(p, u, k)
    \/ \E p \in Press, f \in BOOLEAN : PageEdited(p, f)
    \/ \E p \in Press : PageAcked(p)

SpecSearch == Init /\ [][NextSearch]_vars

\* --------------------------------------------------- paging a cached list
\* The state after the user's first search returned TOTAL_SEARCH_RESULTS
\* songs and every page of it was shown (its buttons "page:0" .. "page:3" are
\* in the chat), and the user's second search returned n songs (page 0 of it
\* is shown).  From here the user presses page buttons.
OldSearch == 1
NewSearch == 2

PagedUser == 1

SearchDone(s) == s \in {OldSearch, NewSearch}

InitPage ==
    /\ pc = [r \in Req |-> "idle"]
    /\ vid = [r \in Req |-> None]
    /\ created = <<>>
    /\ download_queue = <<>>
    /\ sem_value = MAX_CONCURRENT_DOWNLOADS
    /\ sem_waiters = <<>>
    /\ audio_cache = {}
    /\ disk = {}
    /\ queue_position = [r \in Req |-> None]
    /\ notice = [r \in Req |-> NoNotice]
    /\ result = [r \in Req |-> NoPath]
    /\ filepath = [r \in Req |-> NoPath]
    /\ thumb_path = [r \in Req |-> NoPath]
    /\ \E n \in 1..TOTAL_SEARCH_RESULTS :
          LET old == SearchSongs(QueryText(OldSearch), TOTAL_SEARCH_RESULTS)
              new == SearchSongs(QueryText(NewSearch), n)
              pages == (TOTAL_SEARCH_RESULTS + SONGS_PER_PAGE - 1)
                          \div SONGS_PER_PAGE
          IN /\ search_cache = [u \in Users |->
                                   IF u = PagedUser
                                   THEN <<QueryText(NewSearch), new>>
                                   ELSE NoEntry]
             /\ song_metadata =
                   Range(old) \cup Range(build_results_keyboard(new, 0).songs)
             /\ nav_buttons = [u \in Users |->
                                  IF u = PagedUser
                                  THEN (0..(pages - 1))
                                       \cup NavTargets(build_results_keyboard(new, 0))
                                  ELSE {}]
             /\ s_songs = [s \in Srch |->
                              IF s = OldSearch THEN old
                              ELSE IF s = NewSearch THEN new ELSE <<>>]
    /\ s_pc = [s \in Srch |-> IF SearchDone(s) THEN "done_shown" ELSE "idle"]
    /\ s_user = [s \in Srch |-> IF SearchDone(s) THEN PagedUser ELSE None]
    /\ s_query = [s \in Srch |-> IF SearchDone(s) THEN QueryText(s) ELSE None]
    /\ p_pc = [p \in Press |-> "idle"]
    /\ p_user = [p \in Press |-> None]
    /\ p_page = [p \in Press |-> None]
    /\ keyboard = [h \in Handlers |-> NoKeyboard]
    /\ q_pc = "idle"
    /\ active = None
    /\ waiting = None

NextPage ==
    \/ \E p \in Press, u \in Users, k \in 0..TOTAL_SEARCH_RESULTS :
          PaginationHandler(p, u, k)
    \/ \E p \in Press, f \in BOOLEAN : PageEdited(p, f)
    \/ \E p \in Press : PageAcked(p)

SpecPage == InitPage /\ [][NextPage]_vars

\* ------------------------------------------------------------ properties
Terminal == {"done_cached", "done_failed", "done_delivered", "crashed_cache",
             "crashed_answer", "crashed_failmsg", "crashed_deliver"}

\* the pipelines that have a slot of download_semaphore: acquire() gave it to
\* them (for a woken waiter: release() handed it over) and they have not
\* left `async with`
SlotHolders ==
    {r \in Req : pc[r] \in {"woken", "downloading", "downloaded", "fail_msg",
                            "delivering"}}

\* the pipelines whose id was appended and is not removed by them yet
Enqueued(r) == pc[r] \in {"answer", "waiting", "woken", "downloading",
                          "downloaded"}

AllEnded == \A r \in Req : pc[r] \in Terminal \cup {"idle"}

\* C1: at most MAX_CONCURRENT_DOWNLOADS pipelines are inside the slot section
\* of download_semaphore at any time.
C1_AtMostMaxHolders ==
    Cardinality(SlotHolders) <= MAX_CONCURRENT_DOWNLOADS

C1_Witness ==
    /\ Cardinality(SlotHolders) = MAX_CONCURRENT_DOWNLOADS
    /\ \E r \in Req : pc[r] = "waiting"

\* C2: every pipeline that got a slot gives it back exactly once on every exit
\* path: the counter of the semaphore always equals the limit minus the
\* pipelines that hold a slot, and it is back at the limit once all pipelines
\* have ended.
C2_SlotReleasedExactlyOnce ==
    /\ sem_value = MAX_CONCURRENT_DOWNLOADS - Cardinality(SlotHolders)
    /\ AllEnded => sem_value = MAX_CONCURRENT_DOWNLOADS

C2_Witness ==
    /\ \A r \in Req : pc[r] \in Terminal
    /\ \E r \in Req : pc[r] = "crashed_failmsg"
    /\ \E r \in Req : pc[r] = "crashed_deliver"
    /\ \E r \in Req : pc[r] = "done_delivered"
    /\ sem_value = MAX_CONCURRENT_DOWNLOADS

\* C3: the id a request appended to download_queue is removed on every exit
\* path of its pipeline, so the queue is empty once all pipelines have ended.
C3_QueueEmptyWhenAllEnded ==
    AllEnded => download_queue = <<>>

\* C4: a request that is told "running" (position 1..MAX_CONCURRENT_DOWNLOADS)
\* finds, at the moment of the report, fewer than MAX_CONCURRENT_DOWNLOADS
\* slots held by other pipelines.
C4_ToldRunningIsRunning ==
    [][\A r \in Req :
          (/\ pc[r] = "created"
           /\ pc'[r] = "answer"
           /\ queue_position'[r] <= MAX_CONCURRENT_DOWNLOADS)
          => Cardinality(SlotHolders' \ {r}) < MAX_CONCURRENT_DOWNLOADS]_vars

\* C5: enqueueing appends the id and reports the 1-based position equal to the
\* queue length right after the append, as "running" up to the limit and as
\* waiting number (position - limit) beyond it; while nothing has left the
\* queue, the k-th request is told its rank k.
C5_EnqueueStep ==
    \A r \in Req :
       (pc[r] = "created" /\ pc'[r] = "answer")
       => /\ download_queue' = Append(download_queue, vid[r])
          /\ queue_position'[r] = Len(download_queue) + 1
          /\ notice'[r] =
                IF queue_position'[r] <= MAX_CONCURRENT_DOWNLOADS
                THEN <<"downloading", 0>>
                ELSE <<"queued",
                       queue_position'[r] - MAX_CONCURRENT_DOWNLOADS>>

C5_RankReported ==
    \A r \in Req :
       (pc[r] = "answer" /\ \A s \in Req : s < r => Enqueued(s))
       => notice[r] = IF r <= MAX_CONCURRENT_DOWNLOADS
                      THEN <<"downloading", 0>>
                      ELSE <<"queued", r - MAX_CONCURRENT_DOWNLOADS>>

C5_PositionReported == [][C5_EnqueueStep]_vars /\ []C5_RankReported

C5_Witness ==
    /\ \A s \in 1..MAX_CONCURRENT_DOWNLOADS : Enqueued(s)
    /\ pc[MAX_CONCURRENT_DOWNLOADS + 1] = "answer"
    /\ notice[MAX_CONCURRENT_DOWNLOADS + 1] = <<"queued", 1>>

\* C6: requests are admitted in the order of their enqueueing: when a request
\* gets a slot, no request that was appended before it is still waiting for
\* one.  (The tasks run first in the order of the presses, so a smaller
\* number was appended earlier.)
C6_FifoAdmission ==
    [][\A a, b \in Req :
          (/\ a < b
           /\ pc[a] \in {"answer", "waiting"}
           /\ pc[b] \in {"answer", "waiting"}
           /\ b \in SlotHolders')
          => a \in SlotHolders']_vars

\* C7: a press for an id that is in audio_cache is answered from the cache:
\* neither that step nor any later step of the handler touches
\* download_queue, the semaphore, the task list or the disk, and the handler
\* ends without a pipeline.
C7_CacheHitBypassesAdmission ==
    [][\A r \in Req :
          (\/ pc[r] = "idle" /\ pc'[r] # "idle" /\ vid'[r] \in audio_cache
           \/ pc[r] = "cache_send" /\ pc'[r] # "cache_send")
          => /\ pc'[r] \in {"cache_send", "done_cached", "crashed_cache"}
             /\ UNCHANGED <<download_queue, sem_value, sem_waiters, created,
                            disk>>]_vars

C7_Witness ==
    \E r \in Req :
       /\ pc[r] = "done_cached"
       /\ \E s \in Req : s # r /\ s \in SlotHolders

\* C8: once a pipeline has ended, no temp file of that run is left: its
\* thumbnail file is gone, and the audio file of its id exists only while
\* another run for the same id, still between its download and its cleanup,
\* has written it.
C8_NoTempFileLeft ==
    \A r \in Req :
       pc[r] \in Terminal
       => /\ ThumbFile(r) \notin disk
          /\ FinalPath(vid[r]) \in disk
             => \E s \in Req :
                   /\ s # r
                   /\ vid[s] = vid[r]
                   /\ pc[s] \in {"downloaded", "delivering"}

C8_Witness ==
    /\ \A r \in Req : pc[r] \in Terminal
    /\ \E r \in Req : pc[r] = "crashed_deliver"
    /\ \E r \in Req : pc[r] = "done_delivered"
    /\ \E r \in Req : pc[r] = "done_failed"
    /\ disk = {}

\* C9: once the handling of a user's later search has finished, the entry of
\* search_cache for that user is that search's (query, results), whatever it
\* returned.
C9_NewerSearchSupersedes ==
    \A s, t \in Srch :
       (/\ t < s
        /\ s_user[t] = s_user[s]
        /\ s_query[t] # Blank
        /\ s_query[s] # Blank
        /\ s_pc[s] \in {"done_shown", "done_notfound"}
        /\ \A x \in Srch : x > s => s_pc[x] = "idle")
       => search_cache[s_user[s]] = <<s_query[s], s_songs[s]>>

\* the user of a handler
HandlerUser(h) == IF h[1] = "search" THEN s_user[h[2]] ELSE p_user[h[2]]

\* C10: every page that a search or a pagination request builds consists only
\* of songs of the result list cached for that user at that moment.
C10_PageOfOneSearchResult ==
    [][\A h \in Handlers :
          (keyboard'[h] # keyboard[h] /\ keyboard'[h] # NoKeyboard)
          => LET entry == search_cache'[HandlerUser(h)']
             IN /\ entry # NoEntry
                /\ Range(keyboard'[h].songs) \subseteq Range(entry[2])]_vars

C10_Witness ==
    \E p \in Press, s \in Srch :
       /\ p_pc[p] = "edit"
       /\ keyboard[PressHandlerId(p)].songs # <<>>
       /\ s > 1
       /\ s_user[s] = p_user[p]
       /\ search_cache[p_user[p]][1] = s_query[s]
       /\ s_pc[s] = "edit"

\* the page a handler renders: a search shows page 0
HandlerPage(h) == IF h[1] = "search" THEN 0 ELSE p_page[h[2]]

\* the least n with n * b >= a
CeilDiv(a, b) == CHOOSE n \in 0..a : n * b >= a /\ \A m \in 0..(n - 1) : m * b < a

\* the items of list l at the 0-based indices lo .. hi-1
ItemsAt(l, lo, hi) == [i \in 1..(IF hi > lo THEN hi - lo ELSE 0) |-> l[lo + i]]

\* C11: rendering page p (0-based) of a cached result list of size R yields
\* exactly the items at the indices [5p, min(5p+5, R)) in their order, with a
\* back button iff p > 0 and a forward button iff p < ceil(R/5) - 1.
C11_PageSliceAndButtons ==
    [][\A h \in Handlers :
          (keyboard'[h] # keyboard[h] /\ keyboard'[h] # NoKeyboard)
          => LET list == search_cache'[HandlerUser(h)'][2]
                 R == Len(list)
                 p == HandlerPage(h)'
                 kb == keyboard'[h]
             IN /\ kb.songs = ItemsAt(list, SONGS_PER_PAGE * p,
                                      Min(SONGS_PER_PAGE * p + SONGS_PER_PAGE, R))
                /\ (kb.back # NoButton) <=> (p > 0)
                /\ (kb.forward # NoButton)
                      <=> (p < CeilDiv(R, SONGS_PER_PAGE) - 1)]_vars

\* a last page that is not full, and a middle page, have been rendered
C11_Witness ==
    \E p \in Press :
       /\ p_pc[p] = "edit"
       /\ p_page[p] = 2
       /\ Len(search_cache[p_user[p]][2]) = 2 * SONGS_PER_PAGE + 1
       /\ Len(keyboard[PressHandlerId(p)].songs) = 1
       /\ keyboard[PressHandlerId(p)].back = 1
       /\ keyboard[PressHandlerId(p)].forward = NoButton

\* every cached id was delivered by some run
C12_CachedWasDelivered ==
    \A v \in audio_cache :
       \E r \in Req : vid[r] = v /\ pc[r] = "done_delivered"

\* audio_cache changes only in the step in which answer_audio returns to a
\* run, and only by the id of that run; a step that ends a run in failure
\* leaves audio_cache alone
C12_CacheStep ==
    /\ audio_cache' # audio_cache
       => \E r \in Req :
             /\ pc[r] = "delivering"
             /\ pc'[r] = "done_delivered"
             /\ audio_cache' = audio_cache \cup {vid[r]}
    /\ \A r \in Req :
          (/\ pc'[r] # pc[r]
           /\ pc'[r] \in {"fail_msg", "done_failed", "crashed_failmsg",
                          "crashed_deliver", "crashed_answer"})
          => audio_cache' = audio_cache

\* C12: every id in audio_cache is one that some run has delivered
\* successfully before; a run whose download or delivery failed never adds or
\* changes an entry.
C12_CacheOnlyAfterDelivery ==
    []C12_CachedWasDelivered /\ [][C12_CacheStep]_vars

\* one id is cached after a delivery; the runs for the other id failed in the
\* download and in the delivery, and that id is not cached
C12_Witness ==
    \E a, b, c \in Req :
       /\ pc[a] = "done_delivered" /\ vid[a] \in audio_cache
       /\ pc[b] = "crashed_deliver" /\ vid[b] \notin audio_cache
       /\ pc[c] = "done_failed" /\ vid[c] = vid[b]

\* download_song is about to return None to run r
DownloadFailed(r) ==
    pc[r] = "downloaded" /\ (result[r] = NoPath \/ result[r] \notin disk)

\* run r gives its slot back in this step: the counter goes up, or the slot
\* is handed to a waiter
SlotReleasedBy(r) ==
    /\ r \in SlotHolders
    /\ r \notin SlotHolders'
    /\ \/ sem_value' = sem_value + 1 /\ SlotHolders' = SlotHolders \ {r}
       \/ /\ sem_value' = sem_value
          /\ \E s \in Req : /\ pc[s] = "waiting"
                            /\ pc'[s] = "woken"
                            /\ SlotHolders' = (SlotHolders \ {r}) \cup {s}

\* C13: when the download of a request fails, the pipeline sends the
\* "download failed" message once, gives its slot back and stops: no
\* delivery, no entry in audio_cache, no second download.
C13_FailureStopsWithoutRetry ==
    [][\A r \in Req :
          /\ (DownloadFailed(r) /\ pc'[r] # pc[r])
             => /\ pc'[r] = "fail_msg"
                /\ UNCHANGED <<audio_cache, disk>>
          /\ (pc[r] = "fail_msg" /\ pc'[r] # pc[r])
             => /\ pc'[r] \in {"done_failed", "crashed_failmsg"}
                /\ SlotReleasedBy(r)
                /\ UNCHANGED <<audio_cache, disk>>
          /\ pc[r] \in {"done_failed", "crashed_failmsg"}
             => pc'[r] = pc[r]]_vars

\* a run has failed and stopped, its slot went to a request that waited, and
\* nothing is cached
C13_Witness ==
    \E r, s \in Req :
       /\ pc[r] = "done_failed"
       /\ pc[s] = "woken"
       /\ Cardinality(SlotHolders) = MAX_CONCURRENT_DOWNLOADS
       /\ audio_cache = {}

\* C14: two concurrent requests for one uncached id are not deduplicated:
\* each appends its id, and each runs its own pipeline without being failed
\* by the other: a run whose download succeeded (_download returned the path
\* of the file it wrote) goes on to deliver that file, it is not reported as
\* failed, in a run of the program in which no download and no call of the
\* chat transport has failed.
C14_DuplicatesBothSucceed ==
    [][\A r \in Req :
          /\ (pc[r] = "created" /\ pc'[r] = "answer")
             => download_queue' = Append(download_queue, vid[r])
          /\ (/\ pc[r] = "downloaded"
              /\ result[r] # NoPath
              /\ pc'[r] # pc[r]
              /\ \A s \in Req : pc[s] \notin (Terminal \ {"done_delivered"})
                                /\ pc[s] # "fail_msg")
             => pc'[r] = "delivering"]_vars

\* C15: with every ready task run and every external call returning or
\* failing, every request that was enqueued gets a slot and gives it back, and
\* no request waits forever while a slot is free.
C15_EnqueuedGetsAndReleasesSlot ==
    \A r \in Req :
       /\ (pc[r] = "answer") ~> (r \in SlotHolders)
       /\ (r \in SlotHolders) ~> (pc[r] \in Terminal)
       /\ ~<>[](/\ pc[r] = "waiting"
                /\ Cardinality(SlotHolders) < MAX_CONCURRENT_DOWNLOADS)

\* C16: the id of a request stays in download_queue for as long as the
\* request holds its slot: every slot holder has its id in the queue, and the
\* queue is never shorter than the number of held slots.
C16_HolderIdInQueue ==
    /\ \A r \in SlotHolders : InQueue(download_queue, vid[r])
    /\ Len(download_queue) >= Cardinality(SlotHolders)

\* C17: no external operation blocks the event loop: while a catalog search
\* is in progress for one request, every other handler that has a step to
\* take (the call it awaited has returned) can take it.
C17_EventLoopNeverBlocked ==
    \A s \in Srch :
       s_pc[s] = "searching"
       => /\ \A t \in Srch \ {s} :
                /\ s_pc[t] = "delete" => ENABLED SearchDeleted(t)
                /\ s_pc[t] = "status"
                   => ENABLED (SearchStarted(t) \/ SearchFault(t))
                /\ s_pc[t] \in {"notfound", "edit"}
                   => ENABLED (\E f \in BOOLEAN : SearchEdited(t, f))
          /\ \A p \in Press :
                /\ p_pc[p] = "edit"
                   => ENABLED (\E f \in BOOLEAN : PageEdited(p, f))
                /\ p_pc[p] \in {"stale", "ack"} => ENABLED PageAcked(p)

\* the requests that have enqueued their id and wait for a slot
WaitingForSlot == {r \in Req : pc[r] \in {"answer", "waiting"}}

\* C18: the /queue command reports the true state of the admission
\* controller: the running count is the number of pipelines that hold a slot
\* and the waiting count is the number of enqueued requests without a slot.
\* (Stated for the moments at which no request is between its append and
\* `async with`, where nobody would tell "running" from "waiting".)
C18_QueueStatusTrue ==
    [][(/\ q_pc = "idle"
        /\ q_pc' = "reply"
        /\ \A r \in Req : pc[r] # "answer")
       => /\ active' = Cardinality(SlotHolders)
          /\ waiting' = Cardinality(WaitingForSlot)]_vars

\* every song button of a keyboard that a handler has built has its entry
C19_ButtonsHaveMetadata ==
    \A h \in Handlers : Range(keyboard[h].songs) \subseteq song_metadata

\* C19: every track id for which a download or lyrics button has been
\* rendered has an entry in song_metadata from the moment the button exists,
\* and entries are never removed.
C19_MetadataForEveryButton ==
    []C19_ButtonsHaveMetadata /\ [][song_metadata \subseteq song_metadata']_vars

\* the second page of the user's second search is rendered; the entries of
\* the first search are still there
C19_Witness ==
    \E p \in Press :
       /\ p_pc[p] = "edit"
       /\ p_page[p] >= 1
       /\ keyboard[PressHandlerId(p)].songs # <<>>
       /\ search_cache[p_user[p]][1] = QueryText(2)
       /\ Song(QueryText(1), 1) \in song_metadata
       /\ Range(keyboard[PressHandlerId(p)].songs) \subseteq song_metadata

\* C20: every page that a pagination request renders is a valid page of the
\* result list cached for the user at that moment, also when the button
\* pressed belongs to the message of an older search: its index p satisfies
\* 0 <= p < total_pages, it shows at least one item and its indicator
\* p+1/total_pages does not exceed total_pages.
C20_RenderedPageIsValid ==
    [][\A p \in Press :
          (/\ keyboard'[PressHandlerId(p)] # keyboard[PressHandlerId(p)]
           /\ keyboard'[PressHandlerId(p)] # NoKeyboard)
          => LET kb == keyboard'[PressHandlerId(p)]
                 R == Len(search_cache'[p_user'[p]][2])
             IN /\ 0 <= p_page'[p]
                /\ p_page'[p] < CeilDiv(R, SONGS_PER_PAGE)
                /\ kb.songs # <<>>
                /\ kb.label[1] <= kb.label[2]]_vars

====
